---- MODULE Spec2Model ----
(***************************************************************************)
(* A model of splaycast: one upstream stream fanned out to many Receiver   *)
(* streams through an Engine future and a lock-free Shared rendezvous.     *)
(*                                                                         *)
(* Sources modelled (paths under src/):                                    *)
(*   src/engine.rs    Engine::new, set_wake_limit, absorb_upstream, poll,  *)
(*                    wake_everybody_because_i_am_dead, Drop               *)
(*   src/shared.rs    Shared::new, set_dead, swap_queue, register_waker,   *)
(*                    register_wake_interest, drain_wakelist, WakeHandle   *)
(*   src/receiver.rs  Receiver::new, poll_next, find,                      *)
(*                    mark_clean_and_register_for_wake, Drop               *)
(*   src/splaycast.rs Splaycast::subscribe, subscribe_at_tail, Drop        *)
(*   src/sender.rs    Sender::send, SenderStream::poll_next                *)
(*   src/buffer_policy/*.rs  the length, weight and composite policies     *)
(*                                                                         *)
(* Two specifications share the state.  Spec takes every handler (a poll,  *)
(* a drop, a send) as one atomic action, as the raw-poll tests do.         *)
(* ConcSpec splits the Receiver's poll and the Engine's poll at their      *)
(* accesses to Shared, so that the lock-free interleavings are explored;   *)
(* FairConcSpec adds the scheduling the executor guarantees.  TailSpec is  *)
(* Spec with tail subscription, SenderSpec is Spec fed by a Sender, and    *)
(* CompositeSpec is Spec built with a composite buffer policy.             *)
(***************************************************************************)
EXTENDS Integers, Sequences, FiniteSets, TLC

\* ----------------------------------------------------------------- bounds
NumReceivers == 2
MaxItems == 3
MaxItemValue == 1
MaxLimit == 2
MaxWakeLimit == 1
\* the channel is torn down while at most this many items have been sent
MaxItemsAtTeardown == 1

\* ------------------------------------------------------ program constants
\* Engine::new: wake_limit: 32
DefaultWakeLimit == 32

Receivers == 1..NumReceivers
Items == 0..MaxItemValue

VARIABLES
    \* the upstream stream (a channel in the tests)
    upstream,            \* items sent and not yet pulled by the Engine
    upstream_closed,     \* the publish handle was dropped
    yielded,             \* history: every item the upstream yielded, in order
    \* Engine
    engine_state,        \* "new" | "running" | "done" (returned Ready) | "dropped"
    engine_end,          \* history: "none" | "dead" | "upstream" | "drop"
    next_message_id,
    buffer_policy,
    park_queue,
    wake_queue,
    parked_wakers,
    wake_limit,
    engine_notified,     \* the executor has been told to poll the Engine
    \* Shared
    queue,               \* the published snapshot
    wakers,              \* the wake queue (SegQueue)
    is_dead,
    subscribe_sequence,
    subscribe_tail_sequence,
    subscriber_count,
    engine_waker,        \* Shared.waker (AtomicWaker) holds the Engine's waker
    \* Splaycast handle
    splaycast_alive,
    \* Receivers
    r_state,             \* "none" | "live" | "dropped"
    r_next_message_id,
    r_dirty,
    r_result,            \* what the last poll returned
    emitted,             \* history: the messages each Receiver returned
    pending_handle,      \* history: a handle was pushed and not yet invoked
    \* positions inside a poll (ConcSpec only)
    r_pc,
    e_pc,
    e_dirty,
    e_tip,
    e_serviced

vars == << upstream, upstream_closed, yielded, engine_state, engine_end,
           next_message_id, buffer_policy, park_queue, wake_queue,
           parked_wakers, wake_limit, engine_notified, queue, wakers, is_dead,
           subscribe_sequence, subscribe_tail_sequence, subscriber_count,
           engine_waker, splaycast_alive, r_state, r_next_message_id, r_dirty,
           r_result, emitted, pending_handle, r_pc, e_pc, e_dirty, e_tip,
           e_serviced >>

upstreamVars == << upstream, upstream_closed >>
engineVars == << engine_state, engine_end, next_message_id, buffer_policy,
                 park_queue, wake_queue, parked_wakers, yielded >>
hintVars == << subscribe_sequence, subscribe_tail_sequence >>
receiverVars == << r_state, r_next_message_id, r_dirty, r_result, emitted,
                   pending_handle >>
pcVars == << r_pc, e_pc, e_dirty, e_tip, e_serviced >>

\* ---------------------------------------------------------------- helpers
Max(a, b) == IF a >= b THEN a ELSE b

Last(s) == s[Len(s)]

Front(s) == SubSeq(s, 1, Len(s) - 1)

EmptyMap == [x \in {} |-> 0]

MapRemove(m, k) == [x \in (DOMAIN m) \ {k} |-> m[x]]

MapInsert(m, k, v) == [x \in (DOMAIN m) \cup {k} |-> IF x = k THEN v ELSE m[x]]

\* ----------------------------------------------------------- buffer policy
\* BufferLengthPolicy::new / BufferWeightPolicy::new (the weight of an item
\* is the item itself, as in the policy's own test).
LengthPolicy(l) == [kind |-> "length", limit |-> l, count |-> 0]

WeightPolicy(w) == [kind |-> "weight", limit |-> w, count |-> 0]

Policies == {LengthPolicy(l) : l \in 1..MaxLimit} \cup {WeightPolicy(MaxLimit - 1)}

get_weight(item) == item

\* A variant whose length policy pops only above the limit.
buffer_tail_policy_strict(p, tail_item) ==
    IF p.limit < p.count THEN "Pop" ELSE "Retain"

\* BufferPolicyExtension::wrap (composite_buffer_policy.rs 72-74); told is the
\* order in which the last notification reached the two policies
wrap(upper, lower) ==
    [kind |-> "composite", upper |-> upper, lower |-> lower, told |-> << >>]

CompositePolicies ==
    {wrap(WeightPolicy(MaxLimit - 1), LengthPolicy(MaxLimit)),
     wrap(LengthPolicy(MaxLimit), WeightPolicy(MaxLimit - 1))}

RECURSIVE buffer_tail_policy(_, _)
RECURSIVE on_before_send(_, _)
RECURSIVE on_after_pop(_, _)

\* CompositeBufferPolicy::buffer_tail_policy (composite_buffer_policy.rs 21-41):
\* the instruction, and which policies were asked, in order
composite_buffer_tail_policy(c, tail_item) ==
    IF buffer_tail_policy(c.upper, tail_item) = "Retain"
    THEN [instruction |-> IF buffer_tail_policy(c.lower, tail_item) = "Retain"
                          THEN "Retain" ELSE "Pop",
          asked |-> << "upper", "lower" >>]
    ELSE [instruction |-> "Pop", asked |-> << "upper" >>]

\* CompositeBufferPolicy::on_before_send (composite_buffer_policy.rs 43-47)
composite_on_before_send(c, new_item) ==
    [c EXCEPT !.upper = on_before_send(@, new_item),
              !.lower = on_before_send(@, new_item),
              !.told = << "upper", "lower" >>]

\* A variant whose composite tells only the upper policy of a pop.
composite_on_after_pop_upper_only(c, popped_item) ==
    [c EXCEPT !.upper = on_after_pop(@, popped_item),
              !.told = << "upper" >>]

\* CompositeBufferPolicy::on_after_pop (composite_buffer_policy.rs 49-53)
composite_on_after_pop(c, popped_item) ==
    [c EXCEPT !.upper = on_after_pop(@, popped_item),
              !.lower = on_after_pop(@, popped_item),
              !.told = << "upper", "lower" >>]

\* BufferPolicy::buffer_tail_policy
buffer_tail_policy(p, tail_item) ==
    IF p.kind = "composite"
    THEN composite_buffer_tail_policy(p, tail_item).instruction
    ELSE IF p.kind = "length"
    THEN (IF p.limit <= p.count THEN "Pop" ELSE "Retain")
    ELSE (IF p.limit < p.count THEN "Pop" ELSE "Retain")

\* BufferPolicy::on_before_send
on_before_send(p, new_item) ==
    IF p.kind = "composite"
    THEN composite_on_before_send(p, new_item)
    ELSE IF p.kind = "length"
    THEN [p EXCEPT !.count = @ + 1]
    ELSE [p EXCEPT !.count = @ + get_weight(new_item)]

\* A variant whose weight policy forgets to give back the popped weight.
on_after_pop_keeps_weight(p, popped_item) ==
    IF p.kind = "length"
    THEN [p EXCEPT !.count = @ - 1]
    ELSE p

\* BufferPolicy::on_after_pop (saturating_sub for the weight)
on_after_pop(p, popped_item) ==
    IF p.kind = "composite"
    THEN composite_on_after_pop(p, popped_item)
    ELSE IF p.kind = "length"
    THEN [p EXCEPT !.count = @ - 1]
    ELSE [p EXCEPT !.count = Max(0, @ - get_weight(popped_item))]

\* ------------------------------------------------------ Engine: absorbing
\* A variant that evicts the newest entry instead of the oldest.
RECURSIVE EvictTail_newest(_, _)
EvictTail_newest(q, p) ==
    IF q # << >> /\ buffer_tail_policy(p, Last(q).item) = "Pop"
    THEN EvictTail_newest(Front(q), on_after_pop(p, Last(q).item))
    ELSE [q |-> q, p |-> p]

\* A variant that never evicts.
EvictTail_none(q, p) == [q |-> q, p |-> p]

\* engine.rs 91-104: pop the front while the policy says Pop
RECURSIVE EvictTail(_, _)
EvictTail(q, p) ==
    IF q # << >> /\ buffer_tail_policy(p, Head(q).item) = "Pop"
    THEN EvictTail(Tail(q), on_after_pop(p, Head(q).item))
    ELSE [q |-> q, p |-> p]

\* A variant that does not advance the id counter.
AdmitItem_same_id(q, p, id, item) ==
    [q |-> Append(q, [id |-> id, item |-> item]), p |-> on_before_send(p, item),
     id |-> id]

\* A variant that asks the policy after the new entry is in the buffer.
AdmitItem_evict_after(q, p, id, item) ==
    LET ev == EvictTail(Append(q, [id |-> id, item |-> item]), on_before_send(p, item))
    IN [q |-> ev.q, p |-> ev.p, id |-> id + 1]

\* A variant that puts the new entry at the front of the buffer.
AdmitItem_front(q, p, id, item) ==
    LET ev == EvictTail(q, p)
    IN [q |-> << [id |-> id, item |-> item] >> \o ev.q,
        p |-> on_before_send(ev.p, item),
        id |-> id + 1]

\* engine.rs 84-113: one upstream item enters the working copy
AdmitItem(q, p, id, item) ==
    LET ev == EvictTail(q, p)
    IN [q |-> Append(ev.q, [id |-> id, item |-> item]),
        p |-> on_before_send(ev.p, item),
        id |-> id + 1]

\* A variant that admits the first item only and leaves the rest unpublished.
AbsorbItems_first_only(items, q, p, id) ==
    IF items = << >>
    THEN [q |-> q, p |-> p, id |-> id]
    ELSE LET a == AdmitItem(q, p, id, Head(items))
         IN [q |-> a.q, p |-> a.p, id |-> id + Len(items)]

\* engine.rs 80-124: the loop over what the upstream yields
RECURSIVE AbsorbItems(_, _, _, _)
AbsorbItems(items, q, p, id) ==
    IF items = << >>
    THEN [q |-> q, p |-> p, id |-> id]
    ELSE LET a == AdmitItem(q, p, id, Head(items))
         IN AbsorbItems(Tail(items), a.q, a.p, a.id)

\* shared.rs 103-104: the sequence numbers swap_queue derives from the queue
first_sequence_number(next) == IF next = << >> THEN 0 ELSE Head(next).id

last_sequence_number(next) == IF next = << >> THEN 0 ELSE Last(next).id

\* ------------------------------------------------------- Engine: waking
\* A variant that leaves the parked Receivers parked on a dirty cycle.
FlushParked_never(dirty, pq, wq) == [park |-> pq, wake |-> wq]

\* engine.rs 167-179: a dirty cycle moves the park queue into the wake queue
\* A variant whose flush copies the park queue and does not empty it.
FlushParked_copies(dirty, pq, wq) ==
    IF ~dirty THEN [park |-> pq, wake |-> wq]
    ELSE [park |-> pq, wake |-> wq \o pq]

\* A variant that flushes the park queue in every cycle, dirty or not.
FlushParked_always(dirty, pq, wq) ==
    IF wq = << >> THEN [park |-> wq, wake |-> pq]
    ELSE [park |-> << >>, wake |-> wq \o pq]

FlushParked(dirty, pq, wq) ==
    IF ~dirty THEN [park |-> pq, wake |-> wq]
    ELSE IF wq = << >> THEN [park |-> wq, wake |-> pq]
    ELSE [park |-> << >>, wake |-> wq \o pq]

\* A variant that invokes a handle and leaves it in the parked map.
RECURSIVE WakeLoop_keeps_parked(_, _, _, _)
WakeLoop_keeps_parked(wq, pw, n, woken) ==
    IF n = 0 \/ wq = << >>
    THEN [wake |-> wq, parked |-> pw, woken |-> woken]
    ELSE LET id == Last(wq)
         IN IF id \in DOMAIN pw
            THEN WakeLoop_keeps_parked(Front(wq), pw, n - 1, woken \cup {id})
            ELSE WakeLoop_keeps_parked(Front(wq), pw, n - 1, woken)

\* engine.rs 180-191: pop up to wake_limit ids off the back and wake them
RECURSIVE WakeLoop(_, _, _, _)
WakeLoop(wq, pw, n, woken) ==
    IF n = 0 \/ wq = << >>
    THEN [wake |-> wq, parked |-> pw, woken |-> woken]
    ELSE LET id == Last(wq)
         IN IF id \in DOMAIN pw
            THEN WakeLoop(Front(wq), MapRemove(pw, id), n - 1, woken \cup {id})
            ELSE WakeLoop(Front(wq), pw, n - 1, woken)

\* A variant that takes the handle off the wake queue and keeps it nowhere.
ParkHandle_forgets(pq, pw, h) == [park |-> pq, parked |-> pw]

\* engine.rs 208-231: one handle taken from the wake queue with tip < target
ParkHandle(pq, pw, h) ==
    IF h.id \in DOMAIN pw
    THEN [park |-> pq, parked |-> pw]      \* will_wake: duplicate registration
    ELSE [park |-> Append(pq, h.id), parked |-> MapInsert(pw, h.id, h.message_id)]

\* A variant that also parks a handle whose target is the tip itself.
RECURSIVE DrainWakelist_parks_at_tip(_, _, _, _, _, _, _)
DrainWakelist_parks_at_tip(ws, tip, limit, serviced, pq, pw, woken) ==
    IF ws = << >>
    THEN [wakers |-> ws, park |-> pq, parked |-> pw, woken |-> woken, again |-> FALSE]
    ELSE LET h == Head(ws)
             pk == ParkHandle(pq, pw, h)
             parks == tip <= h.message_id
             pq2 == IF parks THEN pk.park ELSE pq
             pw2 == IF parks THEN pk.parked ELSE pw
             wk2 == IF parks THEN woken ELSE woken \cup {h.id}
         IN IF limit = serviced
            THEN [wakers |-> Tail(ws), park |-> pq2, parked |-> pw2,
                  woken |-> wk2, again |-> TRUE]
            ELSE DrainWakelist_parks_at_tip(Tail(ws), tip, limit, serviced + 1,
                                            pq2, pw2, wk2)

\* engine.rs 207-239: the drain of the shared wake queue
RECURSIVE DrainWakelist(_, _, _, _, _, _, _)
DrainWakelist(ws, tip, limit, serviced, pq, pw, woken) ==
    IF ws = << >>
    THEN [wakers |-> ws, park |-> pq, parked |-> pw, woken |-> woken, again |-> FALSE]
    ELSE LET h == Head(ws)
             pk == ParkHandle(pq, pw, h)
             parks == tip < h.message_id
             pq2 == IF parks THEN pk.park ELSE pq
             pw2 == IF parks THEN pk.parked ELSE pw
             wk2 == IF parks THEN woken ELSE woken \cup {h.id}
         IN IF limit = serviced
            THEN [wakers |-> Tail(ws), park |-> pq2, parked |-> pw2,
                  woken |-> wk2, again |-> TRUE]
            ELSE DrainWakelist(Tail(ws), tip, limit, serviced + 1, pq2, pw2, wk2)

\* WakeHandle::wake for a set of handles: the handle stores true into the
\* Receiver's dirty flag (receiver.rs 68-72 hands it the flag) and wakes its task
Wake(d, woken) == [r \in Receivers |-> d[r] \/ r \in woken]

Unpend(ph, woken) == [r \in Receivers |-> ph[r] /\ r \notin woken]

HandleIds(ws) == {ws[i].id : i \in 1..Len(ws)}

\* ----------------------------------------------------------------- Init
Init ==
    /\ upstream = << >>
    /\ upstream_closed = FALSE
    /\ yielded = << >>
    /\ engine_state = "new"
    /\ engine_end = "none"
    /\ next_message_id = 1
    /\ buffer_policy \in Policies
    /\ park_queue = << >>
    /\ wake_queue = << >>
    /\ parked_wakers = EmptyMap
    /\ wake_limit = DefaultWakeLimit
    /\ engine_notified = TRUE
    /\ queue = << >>
    /\ wakers = << >>
    /\ is_dead = FALSE
    /\ subscribe_sequence = 1
    /\ subscribe_tail_sequence = 1
    /\ subscriber_count = 0
    /\ engine_waker = FALSE
    /\ splaycast_alive = TRUE
    /\ r_state = [r \in Receivers |-> "none"]
    /\ r_next_message_id = [r \in Receivers |-> 0]
    /\ r_dirty = [r \in Receivers |-> TRUE]
    /\ r_result = [r \in Receivers |-> "None"]
    /\ emitted = [r \in Receivers |-> << >>]
    /\ pending_handle = [r \in Receivers |-> FALSE]
    /\ r_pc = [r \in Receivers |-> "idle"]
    /\ e_pc = "idle"
    /\ e_dirty = FALSE
    /\ e_tip = 0
    /\ e_serviced = 0

\* ------------------------------------------------------- Shared operations
\* AtomicWaker::wake on Shared.waker: takes the Engine's waker, if one is
\* registered, and wakes it (shared.rs 58, 131)
NotifiedAfterWake == engine_notified \/ engine_waker

\* A variant that wakes the Engine's notifier without storing the flag.
SetDead_wake_only ==
    /\ is_dead' = is_dead
    /\ engine_waker' = FALSE
    /\ engine_notified' = NotifiedAfterWake

\* Shared::set_dead (shared.rs 56-59)
SetDead ==
    /\ is_dead' = TRUE
    /\ engine_waker' = FALSE
    /\ engine_notified' = NotifiedAfterWake

\* ------------------------------------------------------ Receiver: polling
\* receiver.rs 152-169 (offsets count from 0, as in the source)
\* A variant whose offset is one entry too far.
find_skips_one(id, buffer) ==
    IF buffer = << >> THEN [ok |-> FALSE, at |-> 0]
    ELSE LET front_id == Head(buffer).id
         IN IF id < front_id THEN [ok |-> FALSE, at |-> 0]
            ELSE LET offset == id - front_id + 1
                 IN IF Len(buffer) <= offset
                    THEN [ok |-> FALSE, at |-> Len(buffer)]
                    ELSE [ok |-> TRUE, at |-> offset]

find(id, buffer) ==
    IF buffer = << >> THEN [ok |-> FALSE, at |-> 0]
    ELSE LET front_id == Head(buffer).id
         IN IF id < front_id THEN [ok |-> FALSE, at |-> 0]
            ELSE LET offset == id - front_id
                 IN IF Len(buffer) <= offset
                    THEN [ok |-> FALSE, at |-> Len(buffer)]
                    ELSE [ok |-> TRUE, at |-> offset]

Outcome(kind, next, id, item, count) ==
    [kind |-> kind, next |-> next, id |-> id, item |-> item, count |-> count]

\* A variant whose Lagged count is one too high.
poll_next_miscount(n, snapshot) ==
    IF snapshot = << >>
    THEN Outcome("Register", 1, 0, 0, 0)
    ELSE LET tip_id == Last(snapshot).id
             n1 == IF n = 0 THEN tip_id ELSE n
             f == find(n1, snapshot)
         IN IF f.ok
            THEN Outcome("Entry", snapshot[f.at + 1].id + 1, snapshot[f.at + 1].id,
                         snapshot[f.at + 1].item, 0)
            ELSE IF f.at = 0
            THEN Outcome("Lagged", tip_id, 0, 0, tip_id - n1 + 1)
            ELSE Outcome("Register", n1, 0, 0, 0)

\* A variant in which a fresh Receiver starts at the front of the snapshot.
poll_next_from_front(n, snapshot) ==
    IF snapshot = << >>
    THEN Outcome("Register", 1, 0, 0, 0)
    ELSE LET tip_id == Last(snapshot).id
             n1 == IF n = 0 THEN Head(snapshot).id ELSE n
             f == find(n1, snapshot)
         IN IF f.ok
            THEN Outcome("Entry", snapshot[f.at + 1].id + 1, snapshot[f.at + 1].id,
                         snapshot[f.at + 1].item, 0)
            ELSE IF f.at = 0
            THEN Outcome("Lagged", tip_id, 0, 0, tip_id - n1)
            ELSE Outcome("Register", n1, 0, 0, 0)

\* receiver.rs 102-145: what a poll of a dirty Receiver on a live channel does
\* with the snapshot it loaded
poll_next(n, snapshot) ==
    IF snapshot = << >>
    THEN Outcome("Register", 1, 0, 0, 0)
    ELSE LET tip_id == Last(snapshot).id
             n1 == IF n = 0 THEN tip_id ELSE n
             f == find(n1, snapshot)
         IN IF f.ok
            THEN Outcome("Entry", snapshot[f.at + 1].id + 1, snapshot[f.at + 1].id,
                         snapshot[f.at + 1].item, 0)
            ELSE IF f.at = 0
            THEN Outcome("Lagged", tip_id, 0, 0, tip_id - n1)
            ELSE IF f.at = Len(snapshot)
            THEN Outcome("Register", n1, 0, 0, 0)
            ELSE Outcome("Error", n1, 0, 0, 0)

Message(o) == [kind |-> o.kind, id |-> o.id, item |-> o.item, count |-> o.count]

\* ---------------------------------------------- the upstream and the handles
\* The environment: items are sent, and the channel is torn down (by dropping
\* the upstream, the Splaycast or the Engine), while the channel is alive.
TeardownAllowed == Len(yielded) + Len(upstream) <= MaxItemsAtTeardown

\* The upstream keeps the waker of the Engine poll in which it last returned
\* Pending (engine.rs 81, 119-122) until it has something to yield.
UpstreamHoldsWaker ==
    engine_state = "running" /\ upstream = << >> /\ ~upstream_closed

\* A variant whose send appends to the published snapshot itself.
Send_publishes(v) ==
    /\ ~upstream_closed /\ ~is_dead
    /\ Len(yielded) + Len(upstream) < MaxItems
    /\ upstream' = Append(upstream, v)
    /\ queue' = Append(queue, [id |-> last_sequence_number(queue) + 1, item |-> v])
    /\ engine_notified' = (engine_notified \/ UpstreamHoldsWaker)
    /\ UNCHANGED << upstream_closed, engineVars, wake_limit, wakers, is_dead,
                    hintVars, subscriber_count, engine_waker, splaycast_alive,
                    receiverVars, pcVars >>

Send(v) ==
    /\ ~upstream_closed /\ ~is_dead
    /\ Len(yielded) + Len(upstream) < MaxItems
    /\ upstream' = Append(upstream, v)
    /\ engine_notified' = (engine_notified \/ UpstreamHoldsWaker)
    /\ UNCHANGED << upstream_closed, engineVars, wake_limit, queue, wakers, is_dead,
                    hintVars, subscriber_count, engine_waker, splaycast_alive,
                    receiverVars, pcVars >>

DropUpstream ==
    /\ ~upstream_closed /\ ~is_dead /\ TeardownAllowed
    /\ upstream_closed' = TRUE
    /\ engine_notified' = (engine_notified \/ UpstreamHoldsWaker)
    /\ UNCHANGED << upstream, engineVars, wake_limit, queue, wakers, is_dead,
                    hintVars, subscriber_count, engine_waker, splaycast_alive,
                    receiverVars, pcVars >>

\* Engine::set_wake_limit (engine.rs 70-72), before the Engine is first polled
SetWakeLimit(n) ==
    /\ engine_state = "new"
    /\ wake_limit = DefaultWakeLimit
    /\ wake_limit' = Max(n, 1)
    /\ UNCHANGED << upstreamVars, engineVars, engine_notified, queue, wakers, is_dead,
                    hintVars, subscriber_count, engine_waker, splaycast_alive,
                    receiverVars, pcVars >>

\* Splaycast::subscribe -> Receiver::new (splaycast.rs 40-42, receiver.rs 58-65).
\* Receiver ids are handed out in subscription order (Shared::next_receiver_id).
Subscribe(r) ==
    /\ splaycast_alive
    /\ r_state[r] = "none"
    /\ \A x \in 1..(r-1) : r_state[x] # "none"
    /\ r_state' = [r_state EXCEPT ![r] = "live"]
    /\ subscriber_count' = subscriber_count + 1
    /\ r_next_message_id' = [r_next_message_id EXCEPT ![r] = 0]
    /\ r_dirty' = [r_dirty EXCEPT ![r] = TRUE]
    /\ UNCHANGED << upstreamVars, engineVars, wake_limit, engine_notified, queue,
                    wakers, is_dead, hintVars, engine_waker, splaycast_alive,
                    r_result, emitted, pending_handle, pcVars >>

\* A variant whose drop leaves the count alone.
DropReceiver_no_decrement(r) ==
    /\ r_state[r] = "live"
    /\ r_pc[r] = "idle"
    /\ r_state' = [r_state EXCEPT ![r] = "dropped"]
    /\ r_next_message_id' = [r_next_message_id EXCEPT ![r] = 0]
    /\ r_result' = [r_result EXCEPT ![r] = "None"]
    /\ emitted' = [emitted EXCEPT ![r] = << >>]
    /\ UNCHANGED << upstreamVars, engineVars, wake_limit, engine_notified, queue,
                    wakers, is_dead, hintVars, engine_waker, splaycast_alive,
                    r_dirty, pending_handle, pcVars, subscriber_count >>

\* A variant whose drop also marks the channel dead.
DropReceiver_sets_dead(r) ==
    /\ r_state[r] = "live"
    /\ r_pc[r] = "idle"
    /\ r_state' = [r_state EXCEPT ![r] = "dropped"]
    /\ subscriber_count' = subscriber_count - 1
    /\ r_next_message_id' = [r_next_message_id EXCEPT ![r] = 0]
    /\ r_result' = [r_result EXCEPT ![r] = "None"]
    /\ emitted' = [emitted EXCEPT ![r] = << >>]
    /\ is_dead' = TRUE
    /\ UNCHANGED << upstreamVars, engineVars, wake_limit, engine_notified, queue,
                    wakers, hintVars, engine_waker, splaycast_alive,
                    r_dirty, pending_handle, pcVars >>

\* Drop for Receiver (receiver.rs 81-83).  The Receiver's own fields are gone
\* with it; the dirty flag lives on in whatever handle still holds it.
DropReceiver(r) ==
    /\ r_state[r] = "live"
    /\ r_pc[r] = "idle"
    /\ r_state' = [r_state EXCEPT ![r] = "dropped"]
    /\ subscriber_count' = subscriber_count - 1
    /\ r_next_message_id' = [r_next_message_id EXCEPT ![r] = 0]
    /\ r_result' = [r_result EXCEPT ![r] = "None"]
    /\ emitted' = [emitted EXCEPT ![r] = << >>]
    /\ UNCHANGED << upstreamVars, engineVars, wake_limit, engine_notified, queue,
                    wakers, is_dead, hintVars, engine_waker, splaycast_alive,
                    r_dirty, pending_handle, pcVars >>

\* Drop for Splaycast (splaycast.rs 77-79)
DropSplaycast ==
    /\ splaycast_alive /\ ~is_dead /\ TeardownAllowed
    /\ splaycast_alive' = FALSE
    /\ SetDead
    /\ UNCHANGED << upstreamVars, engineVars, wake_limit, queue, wakers, hintVars,
                    subscriber_count, receiverVars, pcVars >>

\* A variant that looks at the dirty flag before it looks at is_dead.
PollOutcome_dirty_first(r) ==
    IF ~r_dirty[r] THEN Outcome("Pending", r_next_message_id[r], 0, 0, 0)
    ELSE IF is_dead THEN Outcome("End", r_next_message_id[r], 0, 0, 0)
    ELSE poll_next(r_next_message_id[r], queue)

\* ------------------------------------------------- Receiver::poll_next, whole
\* receiver.rs 92-101: the dead check, then the dirty check, then the snapshot
PollOutcome(r) ==
    IF is_dead THEN Outcome("End", r_next_message_id[r], 0, 0, 0)
    ELSE IF ~r_dirty[r] THEN Outcome("Pending", r_next_message_id[r], 0, 0, 0)
    ELSE poll_next(r_next_message_id[r], queue)

\* what the poll hands back to its caller
Returned(o) ==
    CASE o.kind \in {"Pending", "Register"} -> "Pending"
      [] o.kind \in {"End", "Error"} -> "End"
      [] OTHER -> o.kind

\* receiver.rs 92-146 with Shared::register_waker (shared.rs 124-132)
ReceiverPoll(r) ==
    /\ r_state[r] = "live"
    /\ r_pc[r] = "idle"
    /\ e_pc = "idle"
    /\ LET o == PollOutcome(r)
       IN /\ r_next_message_id' = [r_next_message_id EXCEPT ![r] = o.next]
          /\ r_result' = [r_result EXCEPT ![r] = Returned(o)]
          /\ emitted' = IF o.kind \in {"Entry", "Lagged"}
                        THEN [emitted EXCEPT ![r] = Append(@, Message(o))]
                        ELSE emitted
          /\ IF o.kind = "Register"
             THEN /\ r_dirty' = [r_dirty EXCEPT ![r] = FALSE]
                  /\ wakers' = Append(wakers, [id |-> r, message_id |-> o.next])
                  /\ pending_handle' = [pending_handle EXCEPT ![r] = TRUE]
                  /\ engine_waker' = FALSE
                  /\ engine_notified' = NotifiedAfterWake
             ELSE UNCHANGED << r_dirty, wakers, pending_handle, engine_waker,
                               engine_notified >>
    /\ UNCHANGED << upstreamVars, engineVars, wake_limit, queue, is_dead, hintVars,
                    subscriber_count, splaycast_alive, r_state, pcVars >>

\* ---------------------------------------------------------- Engine, whole
\* A variant that drains the wake queue and forgets the parked handles.
Teardown_queue_only(how) ==
    LET woken == HandleIds(wakers)
    IN /\ parked_wakers' = EmptyMap
       /\ wakers' = << >>
       /\ r_dirty' = Wake(r_dirty, woken)
       /\ pending_handle' = Unpend(pending_handle, woken)
       /\ engine_end' = IF engine_end = "none" THEN how ELSE engine_end

\* A variant that invokes the parked handles only and discards the wake queue.
Teardown_parked_only(how) ==
    LET woken == DOMAIN parked_wakers
    IN /\ parked_wakers' = EmptyMap
       /\ wakers' = << >>
       /\ r_dirty' = Wake(r_dirty, woken)
       /\ pending_handle' = Unpend(pending_handle, woken)
       /\ engine_end' = IF engine_end = "none" THEN how ELSE engine_end

\* wake_everybody_because_i_am_dead (engine.rs 248-257): every parked handle and
\* every handle in the wake queue is invoked
Teardown(how) ==
    LET woken == (DOMAIN parked_wakers) \cup HandleIds(wakers)
    IN /\ parked_wakers' = EmptyMap
       /\ wakers' = << >>
       /\ r_dirty' = Wake(r_dirty, woken)
       /\ pending_handle' = Unpend(pending_handle, woken)
       /\ engine_end' = IF engine_end = "none" THEN how ELSE engine_end

\* A variant that installs the snapshot and stores no hint.
SwapQueue_skips_hints(next) ==
    /\ queue' = next
    /\ UNCHANGED hintVars

\* A variant whose tail hint is the front id itself.
SwapQueue_front_hint(next) ==
    /\ queue' = next
    /\ subscribe_sequence' = last_sequence_number(next) + 1
    /\ subscribe_tail_sequence' = first_sequence_number(next)

\* A variant that leaves the tail hint as it was.
SwapQueue_stale_tail_hint(next) ==
    /\ queue' = next
    /\ subscribe_sequence' = last_sequence_number(next) + 1
    /\ subscribe_tail_sequence' = subscribe_tail_sequence

\* Shared::swap_queue (shared.rs 94-111)
SwapQueue(next) ==
    /\ queue' = next
    /\ subscribe_sequence' = last_sequence_number(next) + 1
    /\ subscribe_tail_sequence' = first_sequence_number(next) + 1

\* A variant that looks at is_dead only after it has absorbed the upstream.
EnginePoll_dead_check_last ==
    /\ engine_state \in {"new", "running"}
    /\ e_pc = "idle"
    /\ \A r \in Receivers : r_pc[r] = "idle"
    /\ LET ab == AbsorbItems(upstream, queue, buffer_policy, next_message_id)
           dirty == upstream # << >>
       IN /\ upstream' = << >>
          /\ yielded' = yielded \o upstream
          /\ next_message_id' = ab.id
          /\ buffer_policy' = ab.p
          /\ IF dirty THEN SwapQueue(ab.q) ELSE UNCHANGED << queue, hintVars >>
          /\ IF is_dead \/ upstream_closed
             THEN /\ Teardown(IF is_dead THEN "dead" ELSE "upstream")
                  /\ is_dead' = TRUE
                  /\ engine_waker' = FALSE
                  /\ engine_state' = "done"
                  /\ engine_notified' = FALSE
                  /\ UNCHANGED << park_queue, wake_queue >>
             ELSE LET fl == FlushParked(dirty, park_queue, wake_queue)
                      wl == WakeLoop(fl.wake, parked_wakers, wake_limit, {})
                      tip == ab.id - 1
                      dr == DrainWakelist(wakers, tip, wake_limit, 0, fl.park,
                                          wl.parked, wl.woken)
                  IN /\ wake_queue' = wl.wake
                     /\ park_queue' = dr.park
                     /\ parked_wakers' = dr.parked
                     /\ wakers' = dr.wakers
                     /\ r_dirty' = Wake(r_dirty, dr.woken)
                     /\ pending_handle' = Unpend(pending_handle, dr.woken)
                     /\ engine_notified' = (wl.wake # << >> \/ dr.again)
                     /\ engine_waker' = TRUE
                     /\ engine_state' = "running"
                     /\ UNCHANGED << is_dead, engine_end >>
    /\ UNCHANGED << upstream_closed, wake_limit, subscriber_count, splaycast_alive,
                    r_state, r_next_message_id, r_result, emitted, pcVars >>

\* Engine::poll (engine.rs 149-244)
EnginePoll ==
    /\ engine_state \in {"new", "running"}
    /\ e_pc = "idle"
    /\ \A r \in Receivers : r_pc[r] = "idle"
    /\ IF is_dead
       THEN /\ Teardown("dead")
            /\ engine_state' = "done"
            /\ engine_notified' = FALSE
            /\ UNCHANGED << upstream, yielded, next_message_id, buffer_policy,
                            park_queue, wake_queue, queue, hintVars, is_dead,
                            engine_waker >>
       ELSE LET ab == AbsorbItems(upstream, queue, buffer_policy, next_message_id)
                dirty == upstream # << >>
            IN /\ upstream' = << >>
               /\ yielded' = yielded \o upstream
               /\ next_message_id' = ab.id
               /\ buffer_policy' = ab.p
               /\ IF dirty THEN SwapQueue(ab.q) ELSE UNCHANGED << queue, hintVars >>
               /\ IF upstream_closed
                  THEN /\ Teardown("upstream")
                       /\ is_dead' = TRUE
                       /\ engine_waker' = FALSE
                       /\ engine_state' = "done"
                       /\ engine_notified' = FALSE
                       /\ UNCHANGED << park_queue, wake_queue >>
                  ELSE LET fl == FlushParked(dirty, park_queue, wake_queue)
                           wl == WakeLoop(fl.wake, parked_wakers, wake_limit, {})
                           tip == ab.id - 1
                           dr == DrainWakelist(wakers, tip, wake_limit, 0, fl.park,
                                               wl.parked, wl.woken)
                       IN /\ wake_queue' = wl.wake
                          /\ park_queue' = dr.park
                          /\ parked_wakers' = dr.parked
                          /\ wakers' = dr.wakers
                          /\ r_dirty' = Wake(r_dirty, dr.woken)
                          /\ pending_handle' = Unpend(pending_handle, dr.woken)
                          /\ engine_notified' = (wl.wake # << >> \/ dr.again)
                          /\ engine_waker' = TRUE
                          /\ engine_state' = "running"
                          /\ UNCHANGED << is_dead, engine_end >>
    /\ UNCHANGED << upstream_closed, wake_limit, subscriber_count, splaycast_alive,
                    r_state, r_next_message_id, r_result, emitted, pcVars >>

\* Drop for Engine (engine.rs 260-266)
DropEngine ==
    /\ engine_state \in {"new", "running", "done"}
    /\ is_dead \/ TeardownAllowed
    /\ e_pc = "idle"
    /\ \A r \in Receivers : r_pc[r] = "idle"
    /\ engine_state' = "dropped"
    /\ is_dead' = TRUE
    /\ engine_waker' = FALSE
    /\ engine_notified' = FALSE
    /\ Teardown("drop")
    /\ UNCHANGED << upstreamVars, yielded, next_message_id, buffer_policy, park_queue,
                    wake_queue, wake_limit, queue, hintVars, subscriber_count,
                    splaycast_alive, r_state, r_next_message_id, r_result, emitted,
                    pcVars >>

Next ==
    \/ \E v \in Items : Send(v)
    \/ DropUpstream
    \/ \E n \in 0..MaxWakeLimit : SetWakeLimit(n)
    \/ \E r \in Receivers : Subscribe(r)
    \/ \E r \in Receivers : DropReceiver(r)
    \/ DropSplaycast
    \/ \E r \in Receivers : ReceiverPoll(r)
    \/ EnginePoll
    \/ DropEngine

Spec == Init /\ [][Next]_vars

\* ====================================================================
\* TailSpec: Spec with tail subscription
\* ====================================================================
\* Splaycast::subscribe_at_tail (splaycast.rs 51-53) calls
\* Receiver::new_at_buffer_start, which src/receiver.rs does not define.  The
\* constructor is taken from the specification: like Receiver::new, but
\* next_message_id is set from Shared's tail hint
\* (subscribe_tail_sequence_number, shared.rs 119-121).
SubscribeAtTail(r) ==
    /\ splaycast_alive
    /\ r_state[r] = "none"
    /\ \A x \in 1..(r-1) : r_state[x] # "none"
    /\ r_state' = [r_state EXCEPT ![r] = "live"]
    /\ subscriber_count' = subscriber_count + 1
    /\ r_next_message_id' = [r_next_message_id EXCEPT ![r] = subscribe_tail_sequence]
    /\ r_dirty' = [r_dirty EXCEPT ![r] = TRUE]
    /\ UNCHANGED << upstreamVars, engineVars, wake_limit, engine_notified, queue,
                    wakers, is_dead, hintVars, engine_waker, splaycast_alive,
                    r_result, emitted, pending_handle, pcVars >>

TailNext ==
    \/ Next
    \/ \E r \in Receivers : SubscribeAtTail(r)

TailSpec == Init /\ [][TailNext]_vars

\* ====================================================================
\* SenderSpec: the channel() wiring, whose upstream is a Sender's ring buffer
\* ====================================================================
\* channel(buffer_size) (lib.rs 157-164) gives the ring buffer and the
\* splaycast buffer the same size
buffer_size == buffer_policy.limit

\* A variant that makes room by overwriting the oldest item of a full ring.
send_overwrite(ring, capacity, item) ==
    IF Len(ring) >= capacity
    THEN [result |-> "Ok", item |-> item, queue |-> Append(Tail(ring), item),
          wake |-> TRUE]
    ELSE [result |-> "Ok", item |-> item, queue |-> Append(ring, item), wake |-> TRUE]

\* Sender::send (sender.rs 29-39): rtrb's push fails on a full ring and hands
\* the item back; a push that succeeded is followed by waker.wake()
send(ring, capacity, item) ==
    IF Len(ring) >= capacity
    THEN [result |-> "Err", item |-> item, queue |-> ring, wake |-> FALSE]
    ELSE [result |-> "Ok", item |-> item, queue |-> Append(ring, item), wake |-> TRUE]

\* One call of Sender::send.  The SenderStream registers the Engine's waker in
\* every poll_next (sender.rs 66) and the Engine polls it until it is Pending,
\* so the waker is held as UpstreamHoldsWaker says.  send does not look at
\* is_dead.
SenderSend(v) ==
    /\ Len(yielded) + Len(upstream) < MaxItems \/ Len(upstream) >= buffer_size
    /\ LET s == send(upstream, buffer_size, v)
       IN /\ upstream' = s.queue
          /\ engine_notified' = (engine_notified \/ (s.wake /\ UpstreamHoldsWaker))
    /\ UNCHANGED << upstream_closed, engineVars, wake_limit, queue, wakers, is_dead,
                    hintVars, subscriber_count, engine_waker, splaycast_alive,
                    receiverVars, pcVars >>

\* Sender::new with Splaycast::new (lib.rs 161-162)
SenderInit == Init /\ buffer_policy.kind = "length"

\* A SenderStream never ends (sender.rs 67-70 returns Ready(Some) or Pending),
\* so the channel dies by the drop of the Splaycast or of the Engine only.
SenderNext ==
    \/ \E v \in Items : SenderSend(v)
    \/ \E n \in 0..MaxWakeLimit : SetWakeLimit(n)
    \/ \E r \in Receivers : Subscribe(r)
    \/ \E r \in Receivers : DropReceiver(r)
    \/ DropSplaycast
    \/ \E r \in Receivers : ReceiverPoll(r)
    \/ EnginePoll
    \/ DropEngine

SenderSpec == SenderInit /\ [][SenderNext]_vars

\* ====================================================================
\* ConcSpec: the polls split at their accesses to Shared
\* ====================================================================
\* Positions of a Receiver inside poll_next:
\*   "idle"  not polling          "dirty" is_dead read (false), dirty not yet
\*   "load"  dirty read (true)    "check" dirty stored false, in register_waker
\*   "push"  is_dead read (false) "wake"  handle pushed, Engine not yet woken
\* Positions of the Engine inside poll / drop:
\*   "idle" | "register" | "absorb" | "wake" | "drain"
\*   "t_parked" | "t_drain"  wake_everybody_because_i_am_dead from poll
\*   "d_parked" | "d_drain"  the same from Drop
ConcMaxItems == 2
\* the channel is torn down while at most this many items have been sent
ConcMaxItemsAtTeardown == 0
\* the payload plays no part in the interleavings
ConcItems == {0}

ConcTeardownAllowed == Len(yielded) + Len(upstream) <= ConcMaxItemsAtTeardown

Finish(r, result) ==
    /\ r_result' = [r_result EXCEPT ![r] = result]
    /\ r_pc' = [r_pc EXCEPT ![r] = "idle"]

\* receiver.rs 94-96
RStart(r) ==
    /\ r_state[r] = "live"
    /\ r_pc[r] = "idle"
    /\ IF is_dead
       THEN Finish(r, "End")
       ELSE /\ r_pc' = [r_pc EXCEPT ![r] = "dirty"]
            /\ UNCHANGED r_result
    /\ UNCHANGED << upstreamVars, engineVars, wake_limit, engine_notified, queue,
                    wakers, is_dead, hintVars, subscriber_count, engine_waker,
                    splaycast_alive, r_state, r_next_message_id, r_dirty, emitted,
                    pending_handle, e_pc, e_dirty, e_tip, e_serviced >>

\* receiver.rs 98-101
RDirty(r) ==
    /\ r_pc[r] = "dirty"
    /\ IF ~r_dirty[r]
       THEN Finish(r, "Pending")
       ELSE /\ r_pc' = [r_pc EXCEPT ![r] = "load"]
            /\ UNCHANGED r_result
    /\ UNCHANGED << upstreamVars, engineVars, wake_limit, engine_notified, queue,
                    wakers, is_dead, hintVars, subscriber_count, engine_waker,
                    splaycast_alive, r_state, r_next_message_id, r_dirty, emitted,
                    pending_handle, e_pc, e_dirty, e_tip, e_serviced >>

\* receiver.rs 102-145 up to the call of register_waker: the snapshot is
\* loaded and searched, and a Receiver that has to wait stores false into its
\* dirty flag and creates its handle (receiver.rs 68-73).  The history of
\* returned messages is kept by Spec only.
RLoad(r) ==
    /\ r_pc[r] = "load"
    /\ LET o == poll_next(r_next_message_id[r], queue)
       IN /\ r_next_message_id' = [r_next_message_id EXCEPT ![r] = o.next]
          /\ IF o.kind = "Register"
             THEN /\ r_dirty' = [r_dirty EXCEPT ![r] = FALSE]
                  /\ pending_handle' = [pending_handle EXCEPT ![r] = TRUE]
                  /\ r_pc' = [r_pc EXCEPT ![r] = "check"]
                  /\ UNCHANGED r_result
             ELSE /\ Finish(r, Returned(o))
                  /\ UNCHANGED << r_dirty, pending_handle >>
    /\ UNCHANGED << upstreamVars, engineVars, wake_limit, engine_notified, queue,
                    wakers, is_dead, hintVars, subscriber_count, engine_waker,
                    splaycast_alive, r_state, emitted, e_pc, e_dirty, e_tip,
                    e_serviced >>

\* A variant of register_waker that does not look at is_dead.
RCheck_ignores_dead(r) ==
    /\ r_pc[r] = "check"
    /\ r_pc' = [r_pc EXCEPT ![r] = "push"]
    /\ UNCHANGED << r_dirty, pending_handle, r_result >>
    /\ UNCHANGED << upstreamVars, engineVars, wake_limit, engine_notified, queue,
                    wakers, is_dead, hintVars, subscriber_count, engine_waker,
                    splaycast_alive, r_state, r_next_message_id, emitted, e_pc,
                    e_dirty, e_tip, e_serviced >>

\* shared.rs 126-129: register_waker's own look at is_dead
RCheck(r) ==
    /\ r_pc[r] = "check"
    /\ IF is_dead
       THEN /\ r_dirty' = Wake(r_dirty, {r})
            /\ pending_handle' = Unpend(pending_handle, {r})
            /\ Finish(r, "Pending")
       ELSE /\ r_pc' = [r_pc EXCEPT ![r] = "push"]
            /\ UNCHANGED << r_dirty, pending_handle, r_result >>
    /\ UNCHANGED << upstreamVars, engineVars, wake_limit, engine_notified, queue,
                    wakers, is_dead, hintVars, subscriber_count, engine_waker,
                    splaycast_alive, r_state, r_next_message_id, emitted, e_pc,
                    e_dirty, e_tip, e_serviced >>

\* shared.rs 130
RPush(r) ==
    /\ r_pc[r] = "push"
    /\ wakers' = Append(wakers, [id |-> r, message_id |-> r_next_message_id[r]])
    /\ r_pc' = [r_pc EXCEPT ![r] = "wake"]
    /\ UNCHANGED << upstreamVars, engineVars, wake_limit, engine_notified, queue,
                    is_dead, hintVars, subscriber_count, engine_waker,
                    splaycast_alive, r_state, r_next_message_id, r_dirty, r_result,
                    emitted, pending_handle, e_pc, e_dirty, e_tip, e_serviced >>

\* shared.rs 131, then receiver.rs 109 / 131
RWake(r) ==
    /\ r_pc[r] = "wake"
    /\ engine_waker' = FALSE
    /\ engine_notified' = NotifiedAfterWake
    /\ Finish(r, "Pending")
    /\ UNCHANGED << upstreamVars, engineVars, wake_limit, queue, wakers, is_dead,
                    hintVars, subscriber_count, splaycast_alive, r_state,
                    r_next_message_id, r_dirty, emitted, pending_handle, e_pc,
                    e_dirty, e_tip, e_serviced >>

\* engine.rs 151-154: the Engine's look at is_dead; the executor's notification
\* is used up by the poll it causes
EStart ==
    /\ engine_state \in {"new", "running"}
    /\ e_pc = "idle"
    /\ engine_notified' = FALSE
    /\ IF is_dead
       THEN /\ e_pc' = "t_parked"
            /\ engine_end' = IF engine_end = "none" THEN "dead" ELSE engine_end
       ELSE /\ e_pc' = "register"
            /\ UNCHANGED engine_end
    /\ UNCHANGED << upstreamVars, yielded, engine_state, next_message_id,
                    buffer_policy, park_queue, wake_queue, parked_wakers, wake_limit,
                    queue, wakers, is_dead, hintVars, subscriber_count, engine_waker,
                    splaycast_alive, receiverVars, r_pc, e_dirty, e_tip, e_serviced >>

\* engine.rs 156: register_wake_interest (shared.rs 135-137)
ERegister ==
    /\ e_pc = "register"
    /\ engine_waker' = TRUE
    /\ e_pc' = "absorb"
    /\ UNCHANGED << upstreamVars, engineVars, wake_limit, engine_notified, queue,
                    wakers, is_dead, hintVars, subscriber_count, splaycast_alive,
                    receiverVars, r_pc, e_dirty, e_tip, e_serviced >>

\* engine.rs 158-164: absorb_upstream with its swap_queue, and set_dead when
\* the upstream has ended
EAbsorb ==
    /\ e_pc = "absorb"
    /\ LET ab == AbsorbItems(upstream, queue, buffer_policy, next_message_id)
           dirty == upstream # << >>
       IN /\ upstream' = << >>
          /\ yielded' = yielded \o upstream
          /\ next_message_id' = ab.id
          /\ buffer_policy' = ab.p
          /\ IF dirty THEN SwapQueue(ab.q) ELSE UNCHANGED << queue, hintVars >>
          /\ IF upstream_closed
             THEN /\ is_dead' = TRUE
                  /\ engine_waker' = FALSE
                  /\ engine_end' = IF engine_end = "none" THEN "upstream" ELSE engine_end
                  /\ e_pc' = "t_parked"
                  /\ UNCHANGED << engine_state, e_dirty >>
             ELSE /\ engine_state' = "running"
                  /\ e_dirty' = dirty
                  /\ e_pc' = "wake"
                  /\ UNCHANGED << is_dead, engine_waker, engine_end >>
    /\ UNCHANGED << upstream_closed, park_queue, wake_queue, parked_wakers,
                    wake_limit, engine_notified, wakers, subscriber_count,
                    splaycast_alive, receiverVars, r_pc, e_tip, e_serviced >>

\* engine.rs 167-200: the flush of the park queue, the bounded wake loop with
\* its self-wake, and the tip the drain will compare against
EWake ==
    /\ e_pc = "wake"
    /\ LET fl == FlushParked(e_dirty, park_queue, wake_queue)
           wl == WakeLoop(fl.wake, parked_wakers, wake_limit, {})
       IN /\ park_queue' = fl.park
          /\ wake_queue' = wl.wake
          /\ parked_wakers' = wl.parked
          /\ r_dirty' = Wake(r_dirty, wl.woken)
          /\ pending_handle' = Unpend(pending_handle, wl.woken)
          /\ engine_notified' = (engine_notified \/ wl.wake # << >>)
    /\ e_tip' = next_message_id - 1
    /\ e_serviced' = 0
    /\ e_dirty' = FALSE
    /\ e_pc' = "drain"
    /\ UNCHANGED << upstreamVars, yielded, engine_state, engine_end, next_message_id,
                    buffer_policy, wake_limit, queue, wakers, is_dead, hintVars,
                    subscriber_count, engine_waker, splaycast_alive, r_state,
                    r_next_message_id, r_result, emitted, r_pc >>

\* engine.rs 207-243: one turn of the loop over drain_wakelist (one pop of the
\* SegQueue), or the return of Pending when the queue is empty
EDrain ==
    /\ e_pc = "drain"
    /\ IF wakers = << >>
       THEN /\ e_pc' = "idle"
            /\ e_tip' = 0
            /\ e_serviced' = 0
            /\ UNCHANGED << wakers, park_queue, parked_wakers, r_dirty,
                            pending_handle, engine_notified >>
       ELSE LET h == Head(wakers)
                parks == e_tip < h.message_id
                pk == ParkHandle(park_queue, parked_wakers, h)
                last == wake_limit = e_serviced
            IN /\ wakers' = Tail(wakers)
               /\ park_queue' = IF parks THEN pk.park ELSE park_queue
               /\ parked_wakers' = IF parks THEN pk.parked ELSE parked_wakers
               /\ r_dirty' = IF parks THEN r_dirty ELSE Wake(r_dirty, {h.id})
               /\ pending_handle' = IF parks THEN pending_handle
                                    ELSE Unpend(pending_handle, {h.id})
               /\ engine_notified' = (engine_notified \/ last)
               /\ e_pc' = IF last THEN "idle" ELSE "drain"
               /\ e_tip' = IF last THEN 0 ELSE e_tip
               /\ e_serviced' = IF last THEN 0 ELSE e_serviced + 1
    /\ UNCHANGED << upstreamVars, yielded, engine_state, engine_end, next_message_id,
                    buffer_policy, wake_queue, wake_limit, queue, is_dead, hintVars,
                    subscriber_count, engine_waker, splaycast_alive, r_state,
                    r_next_message_id, r_result, emitted, r_pc, e_dirty >>

\* engine.rs 250-252: the parked handles are taken and invoked
ETeardownParked ==
    /\ e_pc \in {"t_parked", "d_parked"}
    /\ parked_wakers' = EmptyMap
    /\ r_dirty' = Wake(r_dirty, DOMAIN parked_wakers)
    /\ pending_handle' = Unpend(pending_handle, DOMAIN parked_wakers)
    /\ e_pc' = IF e_pc = "t_parked" THEN "t_drain" ELSE "d_drain"
    /\ UNCHANGED << upstreamVars, yielded, engine_state, engine_end, next_message_id,
                    buffer_policy, park_queue, wake_queue, wake_limit,
                    engine_notified, queue, wakers, is_dead, hintVars,
                    subscriber_count, engine_waker, splaycast_alive, r_state,
                    r_next_message_id, r_result, emitted, r_pc, e_dirty, e_tip,
                    e_serviced >>

\* engine.rs 253-256: one pop of the final drain, or its end: the poll returns
\* Ready (engine.rs 153, 163) or the drop is over (engine.rs 265)
ETeardownDrain ==
    /\ e_pc \in {"t_drain", "d_drain"}
    /\ IF wakers = << >>
       THEN /\ engine_state' = IF e_pc = "t_drain" THEN "done" ELSE "dropped"
            /\ engine_notified' = FALSE
            /\ e_pc' = "idle"
            /\ UNCHANGED << wakers, r_dirty, pending_handle >>
       ELSE /\ wakers' = Tail(wakers)
            /\ r_dirty' = Wake(r_dirty, {Head(wakers).id})
            /\ pending_handle' = Unpend(pending_handle, {Head(wakers).id})
            /\ UNCHANGED << engine_state, engine_notified, e_pc >>
    /\ UNCHANGED << upstreamVars, yielded, engine_end, next_message_id,
                    buffer_policy, park_queue, wake_queue, parked_wakers, wake_limit,
                    queue, is_dead, hintVars, subscriber_count, engine_waker,
                    splaycast_alive, r_state, r_next_message_id, r_result, emitted,
                    r_pc, e_dirty, e_tip, e_serviced >>

\* engine.rs 261-263: the Engine is dropped, between polls, and sets is_dead
EDropStart ==
    /\ engine_state \in {"new", "running", "done"}
    /\ e_pc = "idle"
    /\ is_dead \/ TeardownAllowed
    /\ SetDead
    /\ engine_end' = IF engine_end = "none" THEN "drop" ELSE engine_end
    /\ e_pc' = "d_parked"
    /\ UNCHANGED << upstreamVars, yielded, engine_state, next_message_id,
                    buffer_policy, park_queue, wake_queue, parked_wakers, wake_limit,
                    queue, wakers, hintVars, subscriber_count, splaycast_alive,
                    receiverVars, r_pc, e_dirty, e_tip, e_serviced >>

ReceiverStep(r) ==
    RStart(r) \/ RDirty(r) \/ RLoad(r) \/ RCheck(r) \/ RPush(r) \/ RWake(r)

EngineStep ==
    EStart \/ ERegister \/ EAbsorb \/ EWake \/ EDrain \/ ETeardownParked
        \/ ETeardownDrain

ConcNext ==
    \/ \E v \in ConcItems : Len(yielded) + Len(upstream) < ConcMaxItems /\ Send(v)
    \/ ConcTeardownAllowed /\ DropUpstream
    \/ \E n \in 0..MaxWakeLimit : SetWakeLimit(n)
    \/ \E r \in Receivers : Subscribe(r)
    \/ ConcTeardownAllowed /\ DropSplaycast
    \/ \E r \in Receivers : ReceiverStep(r)
    \/ EngineStep
    \/ (is_dead \/ ConcTeardownAllowed) /\ EDropStart

\* The interleavings are explored for one buffer policy.
ConcInit == Init /\ buffer_policy = LengthPolicy(MaxLimit)

ConcSpec == ConcInit /\ [][ConcNext]_vars

\* The executor polls the Engine again once its waker has been invoked, and a
\* poll or a drop that has started runs to its end.
FairConcSpec ==
    /\ ConcSpec
    /\ WF_vars(engine_notified /\ EStart)
    /\ WF_vars(ERegister \/ EAbsorb \/ EWake \/ EDrain \/ ETeardownParked
                  \/ ETeardownDrain)
    /\ \A r \in Receivers :
          WF_vars(RDirty(r) \/ RLoad(r) \/ RCheck(r) \/ RPush(r) \/ RWake(r))

\* ====================================================================
\* Properties
\* ====================================================================
LiveReceivers == {r \in Receivers : r_state[r] = "live"}

EntryIdx(log) == {i \in 1..Len(log) : log[i].kind = "Entry"}

RECURSIVE SumCounts(_)
SumCounts(log) == IF log = << >> THEN 0 ELSE Head(log).count + SumCounts(Tail(log))

ConsecutiveEntries(log, i, j) ==
    /\ i \in EntryIdx(log) /\ j \in EntryIdx(log) /\ i < j
    /\ \A k \in EntryIdx(log) : ~(i < k /\ k < j)

\* C1: for every Receiver the ids of the Entry messages it returned strictly
\* increase, and between two consecutive Entries with ids a < b the counts of
\* the Lagged messages it returned in between sum to exactly b - a - 1.
C1_MonotoneAndLagAccounted ==
    \A r \in LiveReceivers :
        LET log == emitted[r]
        IN \A i, j \in 1..Len(log) :
            ConsecutiveEntries(log, i, j) =>
                /\ log[i].id < log[j].id
                /\ SumCounts(SubSeq(log, i + 1, j - 1)) = log[j].id - log[i].id - 1

\* a Receiver returned an Entry, then a Lagged, then an Entry
C1_Witness ==
    \E r \in LiveReceivers :
        \E i \in 1..Len(emitted[r]) :
            /\ i + 2 <= Len(emitted[r])
            /\ emitted[r][i].kind = "Entry"
            /\ emitted[r][i + 1].kind = "Lagged"
            /\ emitted[r][i + 2].kind = "Entry"

\* The universal part of C2: what a Receiver returns as Entries is a
\* subsequence of what the upstream yielded, in upstream order, and the entry
\* of id k carries the k-th upstream item for every Receiver.
EntriesAreUpstreamSubsequence ==
    \A r \in LiveReceivers :
        LET log == emitted[r]
        IN /\ \A i \in EntryIdx(log) :
                /\ log[i].id \in 1..Len(yielded)
                /\ log[i].item = yielded[log[i].id]
           /\ \A i, j \in EntryIdx(log) : i < j => log[i].id < log[j].id

\* the snapshot the Receiver would load holds the entry it waits for
HasEntryFor(r) ==
    /\ queue # << >>
    /\ r_next_message_id[r] >= 1
    /\ Head(queue).id <= r_next_message_id[r]
    /\ r_next_message_id[r] <= Last(queue).id

\* C2 (as claimed): every Receiver's Entries are a subsequence of the upstream
\* yield sequence with the same item per id for all Receivers, and once an
\* Engine poll has published x then y, every Receiver that was pending at the
\* tip returns x, then y on its next polls (in no state of a live channel
\* would its poll return Pending while the published snapshot holds the entry
\* it waits for).
C2_SameSequenceForAll ==
    /\ EntriesAreUpstreamSubsequence
    /\ \A r \in LiveReceivers :
          (~is_dead /\ HasEntryFor(r)) => Returned(PollOutcome(r)) = "Entry"

\* C3 (as claimed): a poll that finds the front id f of the loaded snapshot
\* above its next_message_id n returns Lagged{f - n} and moves
\* next_message_id to f, the front, not to the tip.
C3_LagRecoversAtFront ==
    [][ \A r \in Receivers :
          (ReceiverPoll(r) /\ r_result'[r] = "Lagged" /\ emitted'[r] # emitted[r])
              => /\ r_next_message_id'[r] = Head(queue).id
                 /\ Last(emitted'[r]).count = Head(queue).id - r_next_message_id[r] ]_vars

\* C4: once is_dead is set it stays set, and every Receiver poll that starts
\* afterwards returns End-of-Stream: no Entry, no Lagged, no Pending, no
\* registration, whatever the published snapshot still holds.
C4_DeadMeansEndOfStream ==
    [][ /\ (is_dead => is_dead')
        /\ \A r \in Receivers :
              (is_dead /\ ReceiverPoll(r))
                  => /\ r_result'[r] = "End"
                     /\ emitted'[r] = emitted[r]
                     /\ wakers' = wakers
        /\ \A r \in LiveReceivers' :
              is_dead' => Returned(PollOutcome(r))' = "End" ]_vars

\* a Receiver got End-of-Stream while the snapshot still held its next entry
C4_Witness ==
    \E r \in LiveReceivers :
        /\ is_dead
        /\ r_result[r] = "End"
        /\ HasEntryFor(r)

\* a handle of Receiver r exists, pushed or about to be, that nobody invoked,
\* and the published snapshot already reaches the id it waits for
WaitsForPublished(r) ==
    /\ r_state[r] = "live"
    /\ pending_handle[r]
    /\ queue # << >>
    /\ Last(queue).id >= r_next_message_id[r]

C6_TeardownNeverStrands ==
    (engine_state = "dropped" /\ \A r \in Receivers : r_pc[r] = "idle")
        => \A r \in LiveReceivers : ~pending_handle[r]

\* C7: every published snapshot has contiguous ids.
C7_Contiguity ==
    \A i, j \in 1..Len(queue) : i < j => queue[j].id = queue[i].id + (j - i)

\* a snapshot of several entries whose front was evicted at least once
C7_Witness == Len(queue) >= 2 /\ Head(queue).id > 1

\* C8 (as claimed): (Entries returned) + (sum of the Lagged counts) equals the
\* Receiver's next_message_id minus the next_message_id Receiver::new gave it,
\* which is 0.
C8_Conservation ==
    \A r \in LiveReceivers :
        Cardinality(EntryIdx(emitted[r])) + SumCounts(emitted[r]) = r_next_message_id[r] - 0

\* C9: the k-th item the upstream yields is admitted with id k.
C9_IdIsYieldIndex ==
    /\ next_message_id = Len(yielded) + 1
    /\ \A i \in 1..Len(queue) :
          /\ queue[i].id \in 1..Len(yielded)
          /\ queue[i].item = yielded[queue[i].id]

\* two different items were admitted and both are in the snapshot
C9_Witness ==
    /\ Len(queue) >= 2
    /\ queue[1].item # queue[2].item

\* C10: an Engine poll in which the upstream ends sets is_dead, invokes every
\* handle of the parked list and of the wake queue and returns Ready; every
\* Receiver poll after it returns End-of-Stream.
C10_UpstreamEndTearsDown ==
    [][ /\ (EnginePoll /\ ~is_dead /\ upstream_closed)
            => /\ is_dead'
               /\ engine_state' = "done"
               /\ parked_wakers' = EmptyMap
               /\ wakers' = << >>
               /\ \A r \in (DOMAIN parked_wakers) \cup HandleIds(wakers) :
                     r_dirty'[r] /\ ~pending_handle'[r]
        /\ \A r \in LiveReceivers' :
              engine_end' = "upstream" => Returned(PollOutcome(r))' = "End" ]_vars

\* the upstream ended with Receiver 1 parked and Receiver 2 only in the wake
\* queue, and both have since returned End-of-Stream
C10_Witness ==
    /\ engine_end = "upstream"
    /\ queue = << >>
    /\ park_queue = << 1 >>
    /\ r_next_message_id[2] = 1
    /\ r_result[1] = "End"
    /\ r_result[2] = "End"

\* C11: dropping the Handle sets is_dead and wakes the Engine's notifier; the
\* Engine's next poll invokes every handle of the parked list and of the wake
\* queue and returns Ready; afterwards every Receiver's poll returns
\* End-of-Stream.
C11_HandleDropTearsDown ==
    [][ /\ DropSplaycast
            => /\ is_dead'
               /\ engine_notified' = (engine_notified \/ engine_waker)
               /\ ~engine_waker'
        /\ (EnginePoll /\ is_dead)
            => /\ engine_state' = "done"
               /\ parked_wakers' = EmptyMap
               /\ wakers' = << >>
               /\ \A r \in (DOMAIN parked_wakers) \cup HandleIds(wakers) :
                     r_dirty'[r] /\ ~pending_handle'[r]
        /\ \A r \in LiveReceivers' :
              ~splaycast_alive' => Returned(PollOutcome(r))' = "End" ]_vars

\* the Handle was dropped with Receiver 1 parked and Receiver 2 only in the
\* wake queue, the Engine's poll returned Ready, and both Receivers have since
\* returned End-of-Stream
C11_Witness ==
    /\ engine_end = "dead"
    /\ engine_state = "done"
    /\ ~splaycast_alive
    /\ park_queue = << 1 >>
    /\ r_next_message_id[2] = 1
    /\ r_result[1] = "End"
    /\ r_result[2] = "End"

\* C12: dropping the Engine, without polling it again, sets is_dead and within
\* the drop invokes every handle of the parked list and of the wake queue;
\* afterwards every Receiver's poll returns End-of-Stream.
C12_EngineDropTearsDown ==
    [][ /\ DropEngine
            => /\ is_dead'
               /\ engine_state' = "dropped"
               /\ parked_wakers' = EmptyMap
               /\ wakers' = << >>
               /\ \A r \in (DOMAIN parked_wakers) \cup HandleIds(wakers) :
                     r_dirty'[r] /\ ~pending_handle'[r]
        /\ \A r \in LiveReceivers' :
              engine_state' = "dropped" => Returned(PollOutcome(r))' = "End" ]_vars

\* the Engine was dropped while alive with Receiver 1 parked and Receiver 2
\* only in the wake queue, and both Receivers have since returned End-of-Stream
C12_Witness ==
    /\ engine_end = "drop"
    /\ engine_state = "dropped"
    /\ park_queue = << 1 >>
    /\ r_next_message_id[2] = 1
    /\ r_result[1] = "End"
    /\ r_result[2] = "End"

\* C13 (as claimed): wake_limit is at least 1, and in a single Engine poll on
\* a live channel the number of Receiver wake callbacks invoked, from the
\* flushed parked list and from the drained wake queue together, never exceeds
\* wake_limit.
C13_WakeLimit ==
    [][ /\ wake_limit' >= 1
        /\ (EnginePoll /\ ~is_dead /\ ~upstream_closed)
            => Cardinality({r \in Receivers : pending_handle[r] /\ ~pending_handle'[r]})
                  <= wake_limit ]_vars

\* C14 (as claimed): a Receiver created by subscribe() while the published
\* snapshot's last id is t starts strictly after the tip: polled with nothing
\* newer admitted, on a live channel, it returns Pending and is left waiting
\* for id t + 1 (id 1 on an empty channel).
C14_SubscribeAfterTip ==
    [][ \A r \in Receivers :
          (Subscribe(r) /\ ~is_dead)
              => /\ Returned(PollOutcome(r))' = "Pending"
                 /\ PollOutcome(r)'.next = last_sequence_number(queue) + 1 ]_vars

C17_LengthWindow ==
    buffer_policy.kind = "length" =>
        LET n == next_message_id - 1
            lo == Max(1, n - buffer_policy.limit + 1)
        IN /\ Len(queue) = n - lo + 1
           /\ Len(queue) <= buffer_policy.limit
           /\ \A i \in 1..Len(queue) : queue[i].id = lo + i - 1

\* a length-2 buffer after 3 admitted items, of which the first was evicted
C17_Witness ==
    /\ buffer_policy.kind = "length" /\ buffer_policy.limit = 2
    /\ next_message_id = 4
    /\ Len(queue) = 2
    /\ Head(queue).id = 2

\* what the policy has counted for a buffer: its length, or its weight
RECURSIVE Counted(_, _)
Counted(kind, q) ==
    IF q = << >> THEN 0
    ELSE (IF kind = "length" THEN 1 ELSE get_weight(Head(q).item)) + Counted(kind, Tail(q))

\* C18 (as claimed): after each Engine cycle that admitted at least one item,
\* the policy, asked about the front of the published snapshot, answers Retain
\* (or the snapshot is empty).
C18_FrontIsRetained ==
    queue # << >> => buffer_tail_policy(buffer_policy, Head(queue).item) = "Retain"

\* C18 (amended): the policy is asked before each admission, not after it.
\* After each Engine cycle that admitted at least one item the policy's count
\* is that of the published snapshot, and just before the newest entry was
\* admitted the policy answered Retain about the front, or the buffer was
\* empty.
C18_RetainedBeforeAdmission ==
    /\ buffer_policy.count = Counted(buffer_policy.kind, queue)
    /\ queue # << >> =>
          LET before == [buffer_policy EXCEPT
                            !.count = Counted(buffer_policy.kind, Front(queue))]
          IN \/ Len(queue) = 1
             \/ buffer_tail_policy(before, Head(queue).item) = "Retain"

\* a weight-bounded buffer whose front was evicted at least once and about
\* whose present front the policy now answers Pop
C18_Witness ==
    /\ buffer_policy.kind = "weight"
    /\ Len(queue) >= 2
    /\ Head(queue).id > 1
    /\ buffer_tail_policy(buffer_policy, Head(queue).item) = "Pop"

\* C19: for any two snapshots published one after the other, the front id of
\* the later one is >= the front id of the earlier one and its last id is
\* strictly greater; a published snapshot that replaces another is not empty.
C19_FrontMovesForward ==
    [][ queue' # queue
          => /\ queue' # << >>
             /\ queue # << >>
                   => /\ Head(queue').id >= Head(queue).id
                      /\ Last(queue').id > Last(queue).id ]_vars

\* a Receiver returned the entry of id 1 from an earlier snapshot, and the
\* front of the snapshot now published is past it
C19_Witness ==
    /\ queue # << >>
    /\ Head(queue).id >= 2
    /\ \E r \in LiveReceivers :
          \E i \in EntryIdx(emitted[r]) : emitted[r][i].id = 1

\* C20: subscriber_count equals the number of Receivers created and not yet
\* dropped; each Receiver adds one on creation and takes one away on drop, so
\* the count never goes below 0.
C20_SubscriberCount ==
    [][ /\ subscriber_count' = Cardinality(LiveReceivers')
        /\ subscriber_count' >= 0
        /\ \A r \in Receivers :
              /\ Subscribe(r) => subscriber_count' = subscriber_count + 1
              /\ DropReceiver(r) => subscriber_count' = subscriber_count - 1 ]_vars

\* every Receiver was created and has been dropped, and the count is back at 0
C20_Witness ==
    /\ \A r \in Receivers : r_state[r] = "dropped"
    /\ subscriber_count = 0

\* C21: dropping a Receiver, also one whose wake handle is still in the parked
\* list or in the wake queue, does not terminate the channel: is_dead is left
\* as it was and the handle stays where it is; a later Engine poll on the live
\* channel still admits what is upstream and returns Pending; and an Engine
\* that invokes a handle changes no Receiver's position, result or liveness
\* and not the subscriber count (the callback of a dropped Receiver reaches
\* nothing but its own flag).
C21_ReceiverDropKeepsChannel ==
    [][ /\ \A r \in Receivers :
              DropReceiver(r)
                  => /\ is_dead' = is_dead
                     /\ UNCHANGED << queue, wakers, parked_wakers, park_queue,
                                     wake_queue, engine_state, pending_handle >>
        /\ (EnginePoll /\ ~is_dead /\ ~upstream_closed)
              => /\ ~is_dead'
                 /\ engine_state' = "running"
                 /\ yielded' = yielded \o upstream
                 /\ next_message_id' = next_message_id + Len(upstream)
                 /\ upstream # << >> => Last(queue').item = Last(upstream)
        /\ (EnginePoll \/ DropEngine)
              => /\ UNCHANGED << r_state, subscriber_count, r_next_message_id,
                                 r_result, emitted >>
                 /\ \A r \in Receivers :
                       r_dirty'[r] # r_dirty[r] => pending_handle[r] ]_vars

\* both Receivers were dropped with their handles outstanding, one in the
\* parked list and one in the wake queue, and the channel is alive with an
\* item waiting upstream
C21_Witness ==
    /\ r_state[1] = "dropped" /\ r_state[2] = "dropped"
    /\ pending_handle[1] /\ 1 \in DOMAIN parked_wakers
    /\ pending_handle[2] /\ 2 \in HandleIds(wakers)
    /\ subscriber_count = 0
    /\ ~is_dead /\ engine_state = "running"
    /\ upstream # << >>

\* C22: Sender::send never blocks: while the ring buffer holds buffer_size
\* items the Engine has not pulled, send returns Err with the same item and
\* leaves the ring as it is; otherwise it returns Ok, appends the item and
\* wakes the upstream stream's waker; the ring never holds more than
\* buffer_size items, and the Engine receives the items in send order (a send
\* appends to the sequence of items received and waiting, an Engine poll
\* moves the waiting ones over in order).
C22_SendNeverBlocks ==
    /\ [](/\ Len(upstream) <= buffer_size
          /\ \A v \in Items :
                LET s == send(upstream, buffer_size, v)
                IN IF Len(upstream) = buffer_size
                   THEN s.result = "Err" /\ s.item = v /\ s.queue = upstream /\ ~s.wake
                   ELSE s.result = "Ok" /\ s.queue = Append(upstream, v) /\ s.wake)
    /\ [][ /\ \A v \in Items :
                 SenderSend(v)
                     => /\ Len(upstream) < buffer_size
                        /\ upstream' = Append(upstream, v)
                        /\ yielded' \o upstream' = Append(yielded \o upstream, v)
                        /\ UpstreamHoldsWaker => engine_notified'
           /\ EnginePoll
                 => /\ yielded' \o upstream' = yielded \o upstream
                    /\ ~is_dead => upstream' = << >> ]_vars

\* the ring is full of items the Engine has not pulled, sent after an item
\* the Engine has already received
C22_Witness ==
    /\ Len(upstream) = buffer_size
    /\ buffer_size = MaxLimit
    /\ yielded # << >>
    /\ ~is_dead
    /\ \A v \in Items : send(upstream, buffer_size, v).result = "Err"

\* C23 (as claimed): after the channel is dead (is_dead set by the drop of the
\* Handle or of the Engine), Sender::send returns a failure instead of Ok.
C23_DeadSendFails ==
    is_dead => \A v \in Items : send(upstream, buffer_size, v).result = "Err"

\* C24 (as claimed): a Receiver created by subscribe() before the Engine has
\* published anything is positioned at id 1: when the Engine's first poll
\* absorbs k > L items under a length-L policy, the Receiver's first poll
\* returns Lagged{k - L} and its next poll returns the Entry at the front of
\* the buffer.
C24_JoinBeforeFirstPublish ==
    [][ \A r \in Receivers :
          ( /\ EnginePoll /\ ~is_dead /\ ~upstream_closed
            /\ queue = << >> /\ next_message_id = 1
            /\ buffer_policy.kind = "length"
            /\ Len(upstream) > buffer_policy.limit
            /\ r_state[r] = "live" /\ r_result[r] = "None" )
              => LET first == PollOutcome(r)'
                     second == poll_next(first.next, queue')
                 IN /\ first.kind = "Lagged"
                    /\ first.count = Len(upstream) - buffer_policy.limit
                    /\ second.kind = "Entry"
                    /\ second.id = Head(queue').id ]_vars

TakenHandles == {wakers[i] : i \in 1..(Len(wakers) - Len(wakers'))}

\* C26: park-or-wake rule.  For every handle the Engine takes from the wake
\* queue in a poll on a live channel, with tip = next_message_id - 1 after the
\* upstream was absorbed in that poll: if the handle's target id is above the
\* tip it is in the parked list after the poll, under its target, and was not
\* invoked; otherwise it was invoked in that poll and is not parked.
C26_ParkOrWake ==
    [][ (EnginePoll /\ ~is_dead /\ ~upstream_closed)
          => \A h \in TakenHandles :
                IF h.message_id > next_message_id' - 1
                THEN /\ h.id \in DOMAIN parked_wakers'
                     /\ parked_wakers'[h.id] = h.message_id
                     /\ \E i \in 1..Len(park_queue') : park_queue'[i] = h.id
                     /\ pending_handle'[h.id]
                     /\ r_dirty'[h.id] = r_dirty[h.id]
                ELSE /\ h.id \notin DOMAIN parked_wakers'
                     /\ ~pending_handle'[h.id]
                     /\ r_dirty'[h.id] ]_vars

\* on a live channel with a published tip, one Receiver's handle is parked for
\* the id after the tip and not invoked, and the other Receiver's handle, for
\* an id up to the tip, has been invoked and is not parked
C26_Witness ==
    /\ ~is_dead /\ queue # << >> /\ wakers = << >>
    /\ 1 \in DOMAIN parked_wakers
    /\ parked_wakers[1] = Last(queue).id + 1
    /\ pending_handle[1]
    /\ r_state[2] = "live" /\ r_result[2] = "Pending"
    /\ r_dirty[2] /\ ~pending_handle[2]
    /\ r_next_message_id[2] <= Last(queue).id
    /\ 2 \notin DOMAIN parked_wakers

\* the ids a queue of the Engine holds
QueuedIds(s) == {s[i] : i \in 1..Len(s)}

Min(a, b) == IF a <= b THEN a ELSE b

\* an Engine poll on a live channel whose upstream has not ended
LivePoll == EnginePoll /\ ~is_dead /\ ~upstream_closed

\* the Engine's last poll, or its drop
TeardownStep == (EnginePoll /\ (is_dead \/ upstream_closed)) \/ DropEngine

Held(r) ==
    \/ r_pc[r] \in {"check", "push"}
    \/ r \in HandleIds(wakers)
    \/ r \in DOMAIN parked_wakers

\* the Engine's drain is about to service its last handle under the wake
\* limit and to leave Receiver r's handle in the shared wake queue
LeftInWakeQueue(r) ==
    /\ e_pc = "drain"
    /\ e_serviced = wake_limit
    /\ \E i \in 2..Len(wakers) : wakers[i].id = r

\* the bounded wake loop has left Receiver r's handle in the Engine's wake queue
LeftInEngineQueue(r) == r \in QueuedIds(wake_queue) /\ r \in DOMAIN parked_wakers

C29_PendingPollRegisters ==
    \A r \in LiveReceivers :
        LET o == PollOutcome(r)
        IN /\ (~is_dead /\ Returned(o) = "Pending")
                 => o.kind = "Register" /\ o.next = r_next_message_id[r]
           /\ Returned(o) \in {"Entry", "Lagged", "End"} => o.kind # "Register"

\* C30: register_wake on a dead channel invokes the handle's callback at once
\* and does not enqueue it, nor wake the Engine (the wake queue is left
\* unchanged); on a live channel it enqueues the handle, at the back and under
\* the Receiver's next_message_id, without invoking it, and then wakes the
\* Engine's notifier.
C30_RegisterWake ==
    [][ \A r \in Receivers :
          /\ (r_pc[r] = "check" /\ r_pc'[r] # "check")
                => IF is_dead
                   THEN /\ r_dirty'[r] /\ ~pending_handle'[r]
                        /\ wakers' = wakers
                        /\ engine_notified' = engine_notified
                        /\ r_pc'[r] = "idle" /\ r_result'[r] = "Pending"
                   ELSE /\ r_pc'[r] = "push"
                        /\ UNCHANGED << wakers, r_dirty, pending_handle >>
          /\ (r_pc[r] = "push" /\ r_pc'[r] # "push")
                => /\ wakers' = Append(wakers, [id |-> r,
                                                message_id |-> r_next_message_id[r]])
                   /\ UNCHANGED << r_dirty, pending_handle, engine_notified >>
                   /\ r_pc'[r] = "wake"
          /\ (r_pc[r] = "wake" /\ r_pc'[r] # "wake")
                => /\ engine_notified' = (engine_notified \/ engine_waker)
                   /\ ~engine_waker'
                   /\ UNCHANGED << wakers, r_dirty, pending_handle >>
                   /\ r_pc'[r] = "idle" /\ r_result'[r] = "Pending" ]_vars

\* the channel died while a Receiver was between its own look at is_dead and
\* register_waker's: its handle was invoked by register_waker (the Engine has
\* never run) and the wake queue is empty
C30_Witness ==
    /\ is_dead
    /\ engine_state = "new" /\ e_pc = "idle"
    /\ wakers = << >>
    /\ \E r \in LiveReceivers :
          /\ r_pc[r] = "idle"
          /\ r_result[r] = "Pending"
          /\ r_dirty[r] /\ ~pending_handle[r]
          /\ r_next_message_id[r] = 1

\* C31: an Engine poll returns Ready if and only if is_dead was already set
\* when the poll began or the upstream yielded End-of-Stream during the poll;
\* every other poll returns Pending; a poll that begins with is_dead set pulls
\* nothing from the upstream and publishes no snapshot; and nothing but a poll
\* makes the Engine terminal.
C31_ReadyIffDeadOrUpstreamEnd ==
    [][ /\ EnginePoll
              => /\ (engine_state' = "done") <=> (is_dead \/ upstream_closed)
                 /\ (engine_state' = "running") <=> ~(is_dead \/ upstream_closed)
                 /\ is_dead => UNCHANGED << upstream, yielded, queue, hintVars,
                                            next_message_id, buffer_policy >>
        /\ (engine_state # "done" /\ engine_state' = "done")
              => EnginePoll /\ (is_dead \/ upstream_closed) ]_vars

\* the Engine returned Ready because the channel was dead when its poll began,
\* and the item that was waiting upstream is still there, unpublished
C31_Witness ==
    /\ engine_state = "done"
    /\ engine_end = "dead"
    /\ upstream # << >>
    /\ yielded = << >>
    /\ queue = << >>

\* C32: one publication per cycle: a poll's absorb step takes every item the
\* upstream holds, admits them all and publishes them by one swap after the
\* last of them; an absorb step that admits nothing swaps nothing; the snapshot
\* changes at no other step; so in every state the published snapshot ends
\* with the last item pulled from the upstream, never with a part of a poll's
\* items.
C32_OnePublicationPerCycle ==
    /\ [](IF yielded = << >>
          THEN queue = << >>
          ELSE queue # << >> /\ Last(queue).id = Len(yielded))
    /\ [][ /\ queue' # queue
                => /\ e_pc = "absorb"
                   /\ upstream # << >>
                   /\ upstream' = << >>
                   /\ yielded' = yielded \o upstream
                   /\ Last(queue').id = last_sequence_number(queue) + Len(upstream)
                   /\ Last(queue').item = Last(upstream)
           /\ (e_pc = "absorb" /\ upstream = << >>) => UNCHANGED << queue, hintVars >>
           /\ (e_pc = "absorb" /\ e_pc' = "absorb")
                => UNCHANGED << queue, yielded, next_message_id >> ]_vars

\* a handle parked while nothing was published is still in the park queue
\* right after an absorb step published items 1 and 2: one swap for both
C32_Witness ==
    /\ e_pc = "wake"
    /\ e_dirty
    /\ Len(queue) = 2
    /\ Last(queue).id = 2
    /\ \E r \in Receivers :
          /\ park_queue = << r >>
          /\ wake_queue = << >>
          /\ r \in DOMAIN parked_wakers
          /\ parked_wakers[r] = 1

\* C33: only the Engine writes the buffer: subscribe, a Receiver's poll, a
\* Receiver's drop and an upstream send leave the published snapshot, the
\* subscription hints and the Engine's next_message_id unchanged, and only an
\* Engine poll changes them; so a live Receiver whose poll returns Pending
\* keeps getting Pending, whatever is sent upstream, until an Engine poll runs.
C33_OnlyEngineWritesBuffer ==
    [][ /\ ( \/ \E v \in Items : Send(v)
             \/ \E r \in Receivers : Subscribe(r) \/ ReceiverPoll(r) \/ DropReceiver(r) )
              => UNCHANGED << queue, hintVars, next_message_id >>
        /\ << queue, hintVars, next_message_id >>' # << queue, hintVars, next_message_id >>
              => EnginePoll
        /\ \A r \in Receivers :
              ( /\ r_state[r] = "live" /\ r_state'[r] = "live"
                /\ ~is_dead'
                /\ Returned(PollOutcome(r)) = "Pending"
                /\ ~EnginePoll )
                 => Returned(PollOutcome(r))' = "Pending" ]_vars

\* two items wait upstream, nothing is published, and a Receiver that polled
\* got Pending and would get Pending again
C33_Witness ==
    /\ Len(upstream) = 2
    /\ queue = << >>
    /\ subscribe_sequence = 1
    /\ next_message_id = 1
    /\ ~is_dead
    /\ \E r \in Receivers :
          /\ r_state[r] = "live"
          /\ r_result[r] = "Pending"
          /\ Returned(PollOutcome(r)) = "Pending"

C35_WeightAccounting ==
    buffer_policy.kind = "weight"
       => /\ buffer_policy.count = Counted("weight", queue)
          /\ LET ev == EvictTail(queue, buffer_policy)
                 W == buffer_policy.limit
             IN /\ ev.q = << >> \/ Counted("weight", ev.q) <= W
                /\ ev.p.count = Counted("weight", ev.q)
                /\ \E k \in 0..Len(queue) :
                      /\ ev.q = SubSeq(queue, k + 1, Len(queue))
                      /\ \A j \in 1..k :
                            Counted("weight", SubSeq(queue, j, Len(queue))) > W
          /\ queue # << >> => Counted("weight", Front(queue)) <= buffer_policy.limit

\* under the weight policy the oldest entry has been evicted, and the newest
\* entry has pushed the buffer's weight, which the policy holds, above the limit
C35_Witness ==
    /\ buffer_policy.kind = "weight"
    /\ queue # << >> /\ Head(queue).id > 1
    /\ Counted("weight", queue) > buffer_policy.limit
    /\ buffer_policy.count = Counted("weight", queue)
    /\ EvictTail(queue, buffer_policy).q # queue

\* ------------------------------------------------- composite buffer policy
\* The channel built with a composite policy (upper.wrap(lower)) in place of
\* a single one: everything else is as in Init.
CompositeInit ==
    /\ upstream = << >>
    /\ upstream_closed = FALSE
    /\ yielded = << >>
    /\ engine_state = "new"
    /\ engine_end = "none"
    /\ next_message_id = 1
    /\ buffer_policy \in CompositePolicies
    /\ park_queue = << >>
    /\ wake_queue = << >>
    /\ parked_wakers = EmptyMap
    /\ wake_limit = DefaultWakeLimit
    /\ engine_notified = TRUE
    /\ queue = << >>
    /\ wakers = << >>
    /\ is_dead = FALSE
    /\ subscribe_sequence = 1
    /\ subscribe_tail_sequence = 1
    /\ subscriber_count = 0
    /\ engine_waker = FALSE
    /\ splaycast_alive = TRUE
    /\ r_state = [r \in Receivers |-> "none"]
    /\ r_next_message_id = [r \in Receivers |-> 0]
    /\ r_dirty = [r \in Receivers |-> TRUE]
    /\ r_result = [r \in Receivers |-> "None"]
    /\ emitted = [r \in Receivers |-> << >>]
    /\ pending_handle = [r \in Receivers |-> FALSE]
    /\ r_pc = [r \in Receivers |-> "idle"]
    /\ e_pc = "idle"
    /\ e_dirty = FALSE
    /\ e_tip = 0
    /\ e_serviced = 0

CompositeSpec == CompositeInit /\ [][Next]_vars

\* C36: a composite policy answers Pop exactly when the upper or the lower
\* policy answers Pop for the same tail item; the upper is asked first and the
\* lower is not asked when the upper says Pop; every admit and every evict
\* notification is delivered to both policies, upper first; so each
\* sub-policy's bookkeeping equals what the buffer holds, whichever of the two
\* caused an eviction.
C36_CompositePolicy ==
    LET c == buffer_policy
    IN /\ c.kind = "composite"
       /\ \A t \in Items :
             LET a == composite_buffer_tail_policy(c, t)
                 u == buffer_tail_policy(c.upper, t)
                 l == buffer_tail_policy(c.lower, t)
             IN /\ a.instruction \in {"Pop", "Retain"}
                /\ a.instruction = "Pop" <=> (u = "Pop" \/ l = "Pop")
                /\ a.asked = IF u = "Pop" THEN << "upper" >> ELSE << "upper", "lower" >>
                /\ buffer_tail_policy(c, t) = a.instruction
       /\ \A v \in Items :
             /\ on_before_send(c, v).upper = on_before_send(c.upper, v)
             /\ on_before_send(c, v).lower = on_before_send(c.lower, v)
             /\ on_before_send(c, v).told = << "upper", "lower" >>
             /\ on_after_pop(c, v).upper = on_after_pop(c.upper, v)
             /\ on_after_pop(c, v).lower = on_after_pop(c.lower, v)
             /\ on_after_pop(c, v).told = << "upper", "lower" >>
       /\ c.upper.count = Counted(c.upper.kind, queue)
       /\ c.lower.count = Counted(c.lower.kind, queue)

\* weight over length: the length policy alone asked for the eviction of the
\* first item, of weight 1, and the weight policy has given that weight back
C36_Witness ==
    /\ buffer_policy.kind = "composite"
    /\ buffer_policy.upper.kind = "weight"
    /\ yielded = << 1, 0, 0 >>
    /\ Len(queue) = 2 /\ Head(queue).id = 2
    /\ buffer_policy.upper.count = 0
    /\ buffer_policy.lower.count = 2
    /\ composite_buffer_tail_policy(buffer_policy, Head(queue).item).asked
          = << "upper", "lower" >>
    /\ buffer_tail_policy(buffer_policy.upper, Head(queue).item) = "Retain"
    /\ buffer_tail_policy(buffer_policy, Head(queue).item) = "Pop"

\* C37: the InvariantViolation path is unreachable: the ids of a published
\* snapshot are consecutive, so a Receiver whose next_message_id lies within
\* the snapshot's id range finds exactly that id at the computed offset; no
\* Receiver poll takes the 'ids must be sequential' branch, and no Receiver
\* has been or would be answered End-of-Stream while is_dead is false.
C37_NoInvariantViolation ==
    /\ \A i \in 1..(Len(queue) - 1) : queue[i + 1].id = queue[i].id + 1
    /\ \A r \in Receivers :
          r_state[r] = "live"
             => LET n == r_next_message_id[r]
                    f == find(n, queue)
                    o == poll_next(n, queue)
                IN /\ o.kind # "Error"
                   /\ (queue # << >> /\ Head(queue).id <= n /\ n <= Last(queue).id)
                         => /\ f.ok
                            /\ queue[f.at + 1].id = n
                            /\ o.kind = "Entry" /\ o.id = n
                   /\ ~is_dead => Returned(PollOutcome(r)) # "End"
                   /\ r_result[r] = "End" => is_dead

\* a Receiver's last poll found id 2 strictly inside a snapshot holding the
\* ids 1 to 3 and returned that Entry
C37_Witness ==
    /\ ~is_dead
    /\ Len(queue) = 3 /\ Head(queue).id = 1
    /\ \E r \in Receivers :
          /\ r_state[r] = "live"
          /\ r_result[r] = "Entry"
          /\ emitted[r] # << >>
          /\ Last(emitted[r]).kind = "Entry" /\ Last(emitted[r]).id = 2
          /\ r_next_message_id[r] = 3

\* C38: at the end of every Engine poll on a live channel the receiver ids
\* held in park_queue and wake_queue are pairwise distinct and together are
\* exactly the key set of parked_wakers, so at most one handle is parked per
\* Receiver id however often that Receiver registers again; and when the wake
\* loop starts, every id it can pop has its handle in parked_wakers, so the
\* 'wake id not found' branch is never taken.
C38_ParkedIdsDistinct ==
    /\ (engine_state \in {"new", "running"} /\ e_pc = "idle")
          => /\ Len(park_queue) + Len(wake_queue)
                   = Cardinality(QueuedIds(park_queue) \cup QueuedIds(wake_queue))
             /\ QueuedIds(park_queue) \cup QueuedIds(wake_queue) = DOMAIN parked_wakers
    /\ e_pc = "wake"
          => QueuedIds(park_queue) \cup QueuedIds(wake_queue) \subseteq DOMAIN parked_wakers

\* a poll has ended with Receiver 1's handle left in the wake queue by the
\* wake limit and Receiver 2, woken in that poll, parked again under a new target
C38_Witness ==
    /\ e_pc = "idle" /\ engine_state = "running" /\ ~is_dead
    /\ wake_queue = << 1 >>
    /\ park_queue = << 2 >>
    /\ DOMAIN parked_wakers = {1, 2}
    /\ parked_wakers[1] = 1
    /\ parked_wakers[2] = 2
    /\ r_next_message_id[2] = 2
    /\ pending_handle[1] /\ pending_handle[2]

\* C39: a published snapshot is empty if and only if no item has ever been
\* admitted: every snapshot a poll installs ends with the item admitted last,
\* under every buffer policy, so the hints a swap stores come from real entries
\* (front id + 1 and last id + 1, never the 0 + 1 of an empty snapshot), and a
\* Receiver meets an empty snapshot only before the first publication.
C39_SnapshotNeverEmptied ==
    /\ [](/\ queue = << >> <=> yielded = << >>
          /\ queue # << >>
                => /\ Last(queue).id = Len(yielded)
                   /\ Last(queue).item = Last(yielded)
                   /\ subscribe_sequence = Last(queue).id + 1
                   /\ subscribe_tail_sequence = Head(queue).id + 1
          /\ \A r \in Receivers :
                (r_state[r] = "live" /\ yielded # << >>)
                   => poll_next(r_next_message_id[r], queue)
                         # Outcome("Register", 1, 0, 0, 0)
                      \/ r_next_message_id[r] = 1)
    /\ [][ (EnginePoll /\ ~is_dead /\ upstream # << >>)
             => /\ queue' # << >>
                /\ Last(queue').item = Last(upstream)
                /\ Last(queue').id = next_message_id' - 1
                /\ subscribe_sequence' >= 2 /\ subscribe_tail_sequence' >= 2 ]_vars

\* under the length policy with limit 1 the second admission evicted the only
\* entry before it pushed its own: the snapshot holds item 2 alone
C39_Witness ==
    /\ buffer_policy.kind = "length" /\ buffer_policy.limit = 1
    /\ Len(yielded) = 2
    /\ Len(queue) = 1 /\ Head(queue).id = 2
    /\ subscribe_sequence = 3 /\ subscribe_tail_sequence = 3

\* C40: at the end of every Engine poll, and so between polls, the Engine's
\* tip (next_message_id - 1) is the id of the last entry of the published
\* snapshot, or 0 with an empty snapshot, and the subscribe hint is tip + 1:
\* the Engine's tip and the snapshot Receivers read never disagree.
C40_TipMatchesSnapshot ==
    /\ [](/\ next_message_id - 1 = last_sequence_number(queue)
          /\ subscribe_sequence = next_message_id
          /\ queue = << >> => next_message_id = 1)
    /\ [][ EnginePoll
             => /\ next_message_id' - 1 = last_sequence_number(queue')
                /\ subscribe_sequence' = (next_message_id' - 1) + 1
                /\ next_message_id' = next_message_id + Len(IF is_dead THEN << >> ELSE upstream) ]_vars

\* three items were admitted and the oldest evicted: tip 3 is the last id of
\* the snapshot and the subscribe hint is 4
C40_Witness ==
    /\ engine_state = "running"
    /\ next_message_id = 4
    /\ queue # << >> /\ Last(queue).id = 3 /\ Head(queue).id = 2
    /\ subscribe_sequence = 4

====
